---- MODULE Spec2Model ----
(***************************************************************************)
(* The notification gateway (api-gateway): the submission pipeline of the  *)
(* /notifications/email and /notifications/push routes.                    *)
(*                                                                         *)
(*   require_api_key -> rate_limit -> validate -> idempotency check ->     *)
(*   availability gate -> publish -> status write -> idempotency write     *)
(*                                                                         *)
(* Every request handler is a sequence of steps; a step boundary is placed *)
(* at every call to Redis or RabbitMQ, where another handler's steps can   *)
(* interleave.  Redis commands are atomic; each one either succeeds or     *)
(* raises (backend unreachable, timeout).  Keys written with SETEX or      *)
(* given an EXPIRE can vanish at any later moment (their TTL elapsed).     *)
(***************************************************************************)
EXTENDS Integers, Sequences, FiniteSets, TLC

\* ------------------------------------------------------------------ bounds
\* The number of requests that arrive in one behaviour.
MaxRequests == 3
\* The number of requests of the workloads in which handlers overlap.
MaxOverlap == 2
\* The number of times the Redis backend becomes unreachable.
MaxOutages == 1
\* The number of keys whose TTL elapses.
MaxExpiries == 1

\* -------------------------------------------------------- program constants
\* Config.RATE_LIMIT_PER_MINUTE (read from the environment, 100 by default);
\* the model runs with a small configured value.
RATE_LIMIT_PER_MINUTE == 2
\* check_rate_limit(window=60) and the fallback reset_in_seconds.
WINDOW == 60
\* The envelope's policy hints.
RETRY_COUNT == 0
MAX_RETRIES == 3

\* The API keys of a configured deployment (Config.API_KEYS).
ConfiguredKeys == {"A", "B"}
\* The X-API-Key header values a client may send; "" is the missing header.
Headers == {"A", "B", "bad", ""}
Routes == {"email", "push"}
\* What a rate-limit counter can be kept for: any non-empty header value.
Identifiers == Headers \ {""}

\* ------------------------------------------------------------- JSON values
\* A field of the request body: absent, or a value of some JSON type.  `val`
\* is the text of a string; for a number it is "0" or another numeral; for a
\* map (the variables object) it says whether all its values are strings
\* ("strs"), some value is not a string ("mixed") or the map is empty ("").
JAbsent == [kind |-> "absent", val |-> ""]
JStr(s) == [kind |-> "str", val |-> s]
JNum(n) == [kind |-> "num", val |-> n]
JMap(c) == [kind |-> "map", val |-> c]
\* A field that is present with the value null (None).
JNull == [kind |-> "null", val |-> ""]

\* Python truthiness of data[field] / data.get(field).
Truthy(v) ==
    CASE v.kind = "absent" -> FALSE
      [] v.kind = "str"    -> v.val # ""
      [] v.kind = "num"    -> v.val # "0"
      [] v.kind = "map"    -> v.val # ""
      [] OTHER             -> FALSE

MkData(u, t, v, k) ==
    [user_id |-> u, template_id |-> t, variables |-> v, idempotency_key |-> k]

\* request.get_json() of a body that is {} or null: every field absent.
EmptyData == MkData(JAbsent, JAbsent, JAbsent, JAbsent)

\* Fault variant: the optional fields are not looked at
ValidateRequiredOnly(data) ==
    IF data = EmptyData THEN {"Request body is required"}
    ELSE
        (IF ~Truthy(data.user_id) THEN {"'user_id' is required."} ELSE {})
        \cup (IF ~Truthy(data.template_id) THEN {"'template_id' is required."} ELSE {})
        \cup (IF data.user_id.kind \notin {"absent", "str"}
              THEN {"user_id must be a string"} ELSE {})
        \cup (IF data.template_id.kind \notin {"absent", "str"}
              THEN {"template_id must be a string"} ELSE {})
\* NotificationRequest.validate: the set of error messages (None when empty).
Validate(data) ==
    IF data = EmptyData THEN {"Request body is required"}
    ELSE
        (IF ~Truthy(data.user_id) THEN {"'user_id' is required."} ELSE {})
        \cup (IF ~Truthy(data.template_id) THEN {"'template_id' is required."} ELSE {})
        \cup (IF data.user_id.kind \notin {"absent", "str"}
              THEN {"user_id must be a string"} ELSE {})
        \cup (IF data.template_id.kind \notin {"absent", "str"}
              THEN {"template_id must be a string"} ELSE {})
        \cup (IF data.variables.kind \notin {"absent", "map"}
              THEN {"variables must be an object"} ELSE {})
        \cup (IF data.variables.kind = "map" /\ data.variables.val = "mixed"
              THEN {"variables.<key> must be a string"} ELSE {})
        \cup (IF data.idempotency_key.kind \notin {"absent", "str"}
              THEN {"idempotency_key must be a string"} ELSE {})

\* idempotency_key = data.get('idempotency_key'), as text ("" when falsy).
KeyOf(data) ==
    IF Truthy(data.idempotency_key) /\ data.idempotency_key.kind = "str"
    THEN data.idempotency_key.val ELSE ""

IdemKeys == {"k1"}

\* ------------------------------------------------------------- responses
\* StandardResponse.success / StandardResponse.error: one shape for both.
StandardSuccess(nid, eta, message) ==
    [success |-> TRUE, error |-> "", notification_id |-> nid,
     status |-> "queued", estimated_delivery |-> eta, message |-> message]
StandardError(error) ==
    [success |-> FALSE, error |-> error, notification_id |-> 0,
     status |-> "", estimated_delivery |-> "", message |-> error]
NoBody == StandardError("")

\* json.dumps / json.loads of a response body: the fields in key order.
json_dumps(b) ==
    <<b.success, b.error, b.notification_id, b.status, b.estimated_delivery,
      b.message>>
json_loads(s) ==
    [success |-> s[1], error |-> s[2], notification_id |-> s[3],
     status |-> s[4], estimated_delivery |-> s[5], message |-> s[6]]
\* redis GET of a missing key (None).
Nil == <<>>

\* The estimated delivery and the message of each route.
EtaOf(route) == IF route = "email" THEN "utcnow+2min" ELSE "utcnow+1min"
MessageOf(route) ==
    IF route = "email" THEN "Email notification queued successfully"
    ELSE "Push notification queued successfully"

\* The status code each route returns on an idempotency hit.
ReplayCode(route) == IF route = "email" THEN 20 ELSE 202

\* The ids a client asks the status route about: 1 is the first
\* notification_id the gateway issues, 2 is never a notification_id (it is
\* the first correlation_id).
QueryIds == {1, 2}

\* ------------------------------------------------------------ deployments
\* A deployment and its workload: the configured API keys, the configured
\* RABBITMQ_URL ("" when the variable is not set), whether the cache and the
\* queue service connected at startup, whether handlers run concurrently, and
\* what the clients send.
Workload(threaded, requests, hs, rs, ps) ==
    [threaded |-> threaded, requests |-> requests, headers |-> hs,
     routes |-> rs, payloads |-> ps]
Deployment(keys, url, cache, queue, w) ==
    [keys |-> keys, url |-> url, cache |-> cache, queue |-> queue, load |-> w]

\* The two ways the broker is configured: a CloudAMQP URL, or nothing but the
\* individual settings (which are configured in either case: they have
\* defaults).
CloudUrl == "amqps://cloud"
NoUrl == ""

PlainData == MkData(JStr("u1"), JStr("t1"), JAbsent, JAbsent)
KeyedData == MkData(JStr("u1"), JStr("t1"), JMap("strs"), JStr("k1"))
OtherKeyedData == MkData(JStr("u2"), JStr("t2"), JAbsent, JStr("k1"))
NoTemplateData == MkData(JStr("u1"), JAbsent, JAbsent, JStr("k1"))

\* Bodies of every shape: each field absent, null, or a value of a right or a
\* wrong type, empty or not.
Bodies ==
    { MkData(u, t, v, k) :
        u \in {JAbsent, JNull, JStr(""), JStr("u1"), JNum("0"), JNum("1")},
        t \in {JAbsent, JNull, JStr(""), JStr("t1"), JNum("1"), JMap("strs")},
        v \in {JAbsent, JNull, JStr("x"), JMap(""), JMap("strs"), JMap("mixed")},
        k \in {JAbsent, JNull, JStr(""), JStr("k1"), JNum("1")} }

Scenarios ==
    { \* one client resubmitting with its idempotency key, one request at a time
      Deployment(ConfiguredKeys, CloudUrl, "svc", "svc",
          Workload(FALSE, MaxRequests, {"A"}, Routes, {KeyedData})),
      \* the same submissions handled concurrently
      Deployment(ConfiguredKeys, NoUrl, "svc", "svc",
          Workload(TRUE, MaxOverlap, {"A"}, Routes, {KeyedData})),
      \* one client running into its rate limit
      Deployment(ConfiguredKeys, CloudUrl, "svc", "svc",
          Workload(TRUE, MaxRequests, {"A"}, {"email"}, {NoTemplateData})),
      \* good and bad API keys, good and bad bodies, no idempotency key
      Deployment(ConfiguredKeys, NoUrl, "svc", "svc",
          Workload(TRUE, MaxOverlap, Headers \ {"B"}, Routes, {PlainData, NoTemplateData})),
      \* Redis was unreachable at startup: app.cache_service is None
      Deployment(ConfiguredKeys, CloudUrl, "none", "svc",
          Workload(TRUE, MaxOverlap, {"A"}, {"email", "status"}, {PlainData, KeyedData})),
      \* one client submitting and then asking for the status
      Deployment(ConfiguredKeys, NoUrl, "svc", "svc",
          Workload(FALSE, MaxRequests, {"A"}, {"email", "status"}, {PlainData})),
      \* RabbitMQ was unreachable at startup: app.queue_service is None
      Deployment(ConfiguredKeys, CloudUrl, "svc", "none",
          Workload(TRUE, MaxOverlap, {"A"}, {"push"}, {PlainData, KeyedData})),
      \* one client reusing its idempotency key for another notification
      Deployment(ConfiguredKeys, NoUrl, "svc", "svc",
          Workload(FALSE, MaxOverlap, {"A"}, Routes, {KeyedData, OtherKeyedData})),
      \* two clients, one of them running into its rate limit
      Deployment(ConfiguredKeys, CloudUrl, "svc", "svc",
          Workload(FALSE, MaxRequests + 1, ConfiguredKeys, {"email"},
                   {NoTemplateData})),
      \* API_KEYS is not configured
      Deployment({}, NoUrl, "svc", "svc",
          Workload(TRUE, MaxOverlap, {"A", ""}, {"email"}, {PlainData})) }
    \cup
    \* one client sending one request, with a body of some shape
    { Deployment(ConfiguredKeys, NoUrl, "svc", "svc",
          Workload(FALSE, 1, {"A"}, {"push"}, {body})) : body \in Bodies }

\* ------------------------------------------------------------------ state
VARIABLES
    API_KEYS,        \* app.config['API_KEYS']
    cache_service,   \* app.cache_service: "svc", or "none" (connect failed at startup)
    queue_service,   \* app.queue_service: "svc", or "none"
    RABBITMQ_URL,    \* app.config['RABBITMQ_URL']: "" when not set
    load,            \* the workload: what the clients send, and how many at a time
    reqs,            \* the requests, in arrival order: each handler's locals
    rate,            \* redis rate_limit:<identifier>: [count, ttl]
    idem,            \* redis idempotency:<key>: the stored JSON, or Nil
    status,          \* redis notification:<id>:status: the records
    instance,        \* the module global _queue_service: "none", or a QueueService
                     \* "created" (no connect() completed yet) or "connected"
    call,            \* the last call made on the queue service, and how it ended
    connection,      \* self.connection: "none" (None), "open" or "closed"
    channel,         \* self.channel: "none" (None), "open" or "closed"
    broker_up,       \* whether RabbitMQ accepts connections and frames
    published,       \* the envelopes the broker accepted
    nextId,          \* the next uuid4
    parameters,      \* the parameters the last connect() built
    topology,        \* the exchanges, queues and bindings the broker holds
    incrLog,         \* history: per identifier, the requests counted in its window
    cache_up,        \* whether the Redis backend answers (else every command raises)
    outages,         \* history: how often the backend became unreachable
    expiries,        \* history: how many keys have expired
    cacheWorked,     \* history: some redis command has succeeded
    brokerFaulted,   \* history: some connect or basic_publish has raised
    idemExpired      \* history: some idempotency record has expired

vars == <<API_KEYS, cache_service, queue_service, RABBITMQ_URL, load, reqs, rate,
          idem, status, instance, call, connection, channel, broker_up,
          published, nextId, parameters, topology, incrLog, cache_up, outages, expiries, cacheWorked,
          brokerFaulted, idemExpired>>

config == <<API_KEYS, cache_service, queue_service, RABBITMQ_URL, load>>
redis == <<rate, idem, status, cache_up>>
amqp == <<parameters, topology>>
service == <<instance, call>>
link == <<connection, channel>>
broker == <<service, link, broker_up, published, nextId, amqp>>

\* connection.is_open and channel.is_open
conn_open == connection = "open" /\ channel = "open"
history == <<outages, expiries, cacheWorked, brokerFaulted, idemExpired>>

NoInfo == [limit |-> 0, remaining |-> 0, reset_in_seconds |-> 0]
\* The status route's delivery_info; empty for every other answer.
NoDelivery == [type |-> "", user_id |-> "", template_id |-> ""]

\* A handler that has just been entered.
NewRequest(route, data) ==
    [pc |-> "auth", route |-> route, data |-> data,
     api_key |-> "",          \* request.api_key
     count |-> 0,             \* current_count
     allowed |-> TRUE,        \* allowed
     info |-> NoInfo,         \* rate_info
     query |-> 0,             \* the notification_id of /status/<notification_id>
     delivery |-> NoDelivery, \* delivery_info of the status response
     code |-> 0,              \* the HTTP status returned
     body |-> NoBody,         \* the body returned
     pub |-> 0,               \* history: the notification_id this handler published
     reconnected |-> FALSE,   \* history: this handler's publish called connect()
     wroteStatus |-> FALSE,   \* history: this handler wrote its status record
     wroteIdem |-> FALSE]     \* history: this handler wrote an idempotency record

Indices == 1..Len(reqs)
Done(r) == reqs[r].pc = "done"
InFlight == {r \in Indices : ~Done(r)}

\* The handler returns (jsonify(body), code).
Return(rec, code, body) == [rec EXCEPT !.pc = "done", !.code = code, !.body = body]

Set(r, rec) == reqs' = [reqs EXCEPT ![r] = rec]

\* ------------------------------------------------- connecting to RabbitMQ
\* config.py: the individual settings, with their defaults.
RABBITMQ_HOST == "localhost"
RABBITMQ_EXCHANGE == "notifications.direct"

\* pika.URLParameters(url) and pika.ConnectionParameters(host=..., ...).
URLParameters(url) == [form |-> "url", address |-> url]
ConnectionParameters(host) == [form |-> "discrete", address |-> host]

\* Fault variant: the individual settings win whenever a host is configured
ParametersHostFirst(url, host) ==
    IF host # "" THEN ConnectionParameters(host) ELSE URLParameters(url)
\* connect(), lines 33-57: the parameters handed to BlockingConnection.
\* config.get('RABBITMQ_URL') is falsy for None and for the empty string.
ParametersOf(url, host) ==
    IF url # "" THEN URLParameters(url) ELSE ConnectionParameters(host)

\* A broker that holds nothing yet.
NoTopology == [exchanges |-> {}, queues |-> {}, bindings |-> {}]

\* What a declaration or a binding answers: the broker's topology after it,
\* and whether the channel raised.
Declared(t) == [topology |-> t, raised |-> FALSE]
Refused(t) == [topology |-> t, raised |-> TRUE]

\* channel.exchange_declare: creates the exchange; a no-op when one of that
\* name exists with the same properties; PRECONDITION_FAILED when one exists
\* with other properties.
ExchangeDeclare(t, name, type, durable) ==
    LET x == [name |-> name, type |-> type, durable |-> durable]
        named == {e \in t.exchanges : e.name = name}
    IN IF named = {} THEN Declared([t EXCEPT !.exchanges = @ \cup {x}])
       ELSE IF named = {x} THEN Declared(t)
       ELSE Refused(t)

\* Fault variant: a declaration that is refused when the queue already exists
QueueDeclareOnce(t, name, durable, auto_delete, exclusive) ==
    LET q == [name |-> name, durable |-> durable, auto_delete |-> auto_delete,
              exclusive |-> exclusive]
    IN IF \E e \in t.queues : e.name = name
       THEN Refused(t)
       ELSE Declared([t EXCEPT !.queues = @ \cup {q}])
\* channel.queue_declare (arguments=None): the same three cases for a queue.
QueueDeclare(t, name, durable, auto_delete, exclusive) ==
    LET q == [name |-> name, durable |-> durable, auto_delete |-> auto_delete,
              exclusive |-> exclusive]
        named == {e \in t.queues : e.name = name}
    IN IF named = {} THEN Declared([t EXCEPT !.queues = @ \cup {q}])
       ELSE IF named = {q} THEN Declared(t)
       ELSE Refused(t)

\* channel.queue_bind: NOT_FOUND when the exchange or the queue is missing;
\* binding twice with the same routing key is a no-op.
QueueBind(t, exchange, queue, routing_key) ==
    IF /\ \E e \in t.exchanges : e.name = exchange
       /\ \E q \in t.queues : q.name = queue
    THEN Declared([t EXCEPT !.bindings = @ \cup
             {[exchange |-> exchange, queue |-> queue,
               routing_key |-> routing_key]}])
    ELSE Refused(t)

\* _setup_exchange_and_queues, lines 87-91: the list the loop runs over.
queues == << <<"email.queue", "email">>, <<"push.queue", "push">> >>

\* The loop of lines 93-108, from the n-th queue on; an exception ends it.
RECURSIVE DeclareQueues(_, _)
DeclareQueues(t, n) ==
    IF n > Len(queues) THEN Declared(t)
    ELSE LET q == QueueDeclare(t, queues[n][1], TRUE, FALSE, FALSE)
         IN IF q.raised THEN q
            ELSE LET b == QueueBind(q.topology, RABBITMQ_EXCHANGE,
                                    queues[n][1], queues[n][2])
                 IN IF b.raised THEN b ELSE DeclareQueues(b.topology, n + 1)

\* _setup_exchange_and_queues run against a broker that holds t.
SetupExchangeAndQueues(t) ==
    LET x == ExchangeDeclare(t, RABBITMQ_EXCHANGE, "direct", TRUE)
    IN IF x.raised THEN x ELSE DeclareQueues(x.topology, 1)

\* --------------------------------------------------------- the redis keys
\* A Python string is the tuple of its characters.
IDEMPOTENCY_PREFIX == <<"i", "d", "e", "m", "p", "o", "t", "e", "n", "c", "y", ":">>
NOTIFICATION_PREFIX ==
    <<"n", "o", "t", "i", "f", "i", "c", "a", "t", "i", "o", "n", ":">>
STATUS_SUFFIX == <<":", "s", "t", "a", "t", "u", "s">>
RATE_LIMIT_PREFIX == <<"r", "a", "t", "e", "_", "l", "i", "m", "i", "t", ":">>

\* key = f"idempotency:{idempotency_key}"
IdempotencyKey(k) == IDEMPOTENCY_PREFIX \o k

\* Fault variant: the status record stored under the bare notification id
StatusKeyBare(n) == n
\* key = f"notification:{notification_id}:status"
StatusKey(n) == NOTIFICATION_PREFIX \o n \o STATUS_SUFFIX

\* key = f"rate_limit:{identifier}"
RateLimitKey(i) == RATE_LIMIT_PREFIX \o i

\* str() of a notification id: the uuid4 values are numbered here.
Digits == <<"0", "1", "2", "3", "4", "5", "6", "7", "8", "9">>
RECURSIVE Decimal(_)
Decimal(n) ==
    IF n < 10 THEN <<Digits[n + 1]>>
    ELSE Decimal(n \div 10) \o <<Digits[(n % 10) + 1]>>

\* The characters of the idempotency keys and API keys the clients send.
Chars(name) ==
    CASE name = "k1" -> <<"k", "1">>
      [] name = "A" -> <<"A">>
      [] name = "B" -> <<"B">>
      [] name = "bad" -> <<"b", "a", "d">>
      [] OTHER -> <<>>

\* ------------------------------------------------------ the queue service
\* Fault variant: a probe that looks at the connection only
IsConnectedConnectionOnly(conn, chan) ==
    IF conn = "none" THEN "None"
    ELSE IF conn = "open" THEN "True" ELSE "False"
\* The value of (self.connection and self.connection.is_open and self.channel
\* and self.channel.is_open): the first falsy operand, else the last one.
IsConnectedValue(conn, chan) ==
    IF conn = "none" THEN "None"
    ELSE IF conn # "open" THEN "False"
    ELSE IF chan = "none" THEN "None"
    ELSE IF chan = "open" THEN "True" ELSE "False"

\* connect(), lines 59-65, with the broker up or not: BlockingConnection
\* raises before anything is assigned when the broker is unreachable; else the
\* connection and the channel are replaced and the topology is declared, and
\* a refused declaration closes the channel and is re-raised.
ConnectResult(conn, chan, topo, up) ==
    IF ~up
    THEN [connection |-> conn, channel |-> chan, topology |-> topo, raised |-> TRUE]
    ELSE LET setup == SetupExchangeAndQueues(topo)
         IN [connection |-> "open",
             channel |-> IF setup.raised THEN "closed" ELSE "open",
             topology |-> setup.topology, raised |-> setup.raised]

\* What the broker or the network takes away: nothing, the channel, or the
\* connection with its channel.
Losses == {"nothing", "channel", "connection"}
AfterLoss(what, conn, chan) ==
    [connection |-> IF what = "connection" /\ conn = "open" THEN "closed" ELSE conn,
     channel |-> IF what \in {"channel", "connection"} /\ chan = "open"
                 THEN "closed" ELSE chan]

\* No call has been made yet.
NoCall == [op |-> "", result |-> "", raised |-> FALSE]

\* ------------------------------------------------------------------ Init
\* create_app: the configuration is loaded, get_queue_service() and
\* get_cache_service() each either connect or leave the service None.  A queue
\* service that connected has declared the topology.
InitApp(scenario) ==
    /\ API_KEYS = scenario.keys
    /\ cache_service = scenario.cache
    /\ queue_service = scenario.queue
    /\ RABBITMQ_URL = scenario.url
    /\ load = scenario.load
    /\ reqs = <<>>
    /\ rate = [i \in Identifiers |-> [count |-> 0, ttl |-> FALSE]]
    /\ idem = [k \in IdemKeys |-> Nil]
    /\ status = {}
    /\ published = {}
    /\ nextId = 1
    /\ parameters = ParametersOf(RABBITMQ_URL, RABBITMQ_HOST)
    /\ incrLog = [i \in Identifiers |-> <<>>]
    /\ cache_up = (cache_service = "svc")
    /\ outages = 0
    /\ expiries = 0
    /\ cacheWorked = FALSE
    /\ brokerFaulted = FALSE
    /\ idemExpired = FALSE

\* get_queue_service() at startup: the global is set before connect() runs,
\* so it holds an instance whether or not connect() raised.
InitWith(scenario) ==
    /\ InitApp(scenario)
    /\ broker_up = (queue_service = "svc")
    /\ LET c == ConnectResult("none", "none", NoTopology, broker_up)
       IN /\ instance = IF c.raised THEN "created" ELSE "connected"
          /\ connection = c.connection
          /\ channel = c.channel
          /\ topology = c.topology
    /\ call = NoCall

Init == \E scenario \in Scenarios : InitWith(scenario)

\* ------------------------------------------------------ entering a handler
\* Fault variant: the broker consulted before the body is validated
AfterValidationGated(rec) ==
    IF ~broker_up
    THEN Return(rec, 503, StandardError("service_unavailable"))
    ELSE IF Validate(rec.data) # {}
    THEN Return(rec, 400, StandardError("validation_error"))
    ELSE [rec EXCEPT !.pc = IF KeyOf(rec.data) # "" /\ cache_service = "svc"
                            THEN "idem_get" ELSE "gate"]
\* send_email_notification / send_push_notification, lines 30-43: the body
\* is validated, then the idempotency key decides whether the cache is read.
\* (Nothing shared is read or written here: the step is taken together with
\* the one that calls the handler.)
AfterValidation(rec) ==
    IF Validate(rec.data) # {}
    THEN Return(rec, 400, StandardError("validation_error"))
    ELSE [rec EXCEPT !.pc = IF KeyOf(rec.data) # "" /\ cache_service = "svc"
                            THEN "idem_get" ELSE "gate"]

\* --------------------------------------------------------- require_api_key
\* Fault variant: any key that is sent is taken for a valid one
AuthOutcomeAnyKey(hdr) ==
    IF hdr = "" THEN [code |-> 401, error |-> "missing_api_key"]
    ELSE [code |-> 0, error |-> ""]
\* A request arrives and require_api_key runs; on success the rate_limit
\* wrapper is entered and decides whether there is anything to count.
AuthOutcome(hdr) ==
    IF hdr = "" THEN [code |-> 401, error |-> "missing_api_key"]
    ELSE IF API_KEYS = {} THEN [code |-> 500, error |-> "configuration_error"]
    ELSE IF hdr \notin API_KEYS THEN [code |-> 401, error |-> "invalid_api_key"]
    ELSE [code |-> 0, error |-> ""]

\* Fault variant: a request that carries an idempotency key is not counted
RateLimitEntryKeyedFree(rec) ==
    IF cache_service = "none" \/ rec.api_key = "" \/ KeyOf(rec.data) # ""
    THEN AfterValidation(rec)
    ELSE [rec EXCEPT !.pc = "rl_incr"]
\* rate_limit, lines 11-22: without a cache service (or an identifier) the
\* wrapped handler is called at once.
RateLimitEntry(rec) ==
    IF cache_service = "none" \/ rec.api_key = "" THEN AfterValidation(rec)
    ELSE [rec EXCEPT !.pc = "rl_incr"]

RequireApiKey(hdr, route, data) ==
    /\ Len(reqs) < load.requests
    /\ load.threaded \/ InFlight = {}
    /\ LET a == AuthOutcome(hdr)
           \* a rejected request's route and body are never read
           rec == IF a.code # 0
                  THEN Return(NewRequest("email", EmptyData), a.code,
                              StandardError(a.error))
                  ELSE RateLimitEntry([NewRequest(route, data) EXCEPT !.api_key = hdr])
       IN reqs' = Append(reqs, rec)
    /\ UNCHANGED <<config, redis, broker, incrLog, history>>

\* ---------------------------------------------------------- check_rate_limit
\* Fault variant: one counter for all clients
IdentifierShared(rec) == "A"
\* identifier = getattr(request, 'api_key', None)
Identifier(rec) == rec.api_key

\* Fault variant: the boundary taken strictly
AllowedStrict(count, limit) == count < limit
\* allowed = current_count <= limit
Allowed(count, limit) == count <= limit

\* Fault variant: the counter written back from a stale read: an increment of an
\* existing counter is lost
IncrLost(old) == IF old = 0 THEN 1 ELSE old
\* redis INCR: the new value of the counter.
Incr(old) == old + 1

\* Fault variant: the request refused when a redis command raises
FailClosed(rec) == [rec EXCEPT !.count = 0, !.allowed = FALSE, !.pc = "rl_get"]
\* What check_rate_limit returns when a redis command raises: (True, 0).
FailOpen(rec) == [rec EXCEPT !.count = 0, !.allowed = TRUE, !.pc = "rl_get"]

\* current_count = self.client.incr(key)
RateLimitIncr(r) ==
    /\ reqs[r].pc = "rl_incr"
    /\ LET id == Identifier(reqs[r])
           n == Incr(rate[id].count)
       IN IF cache_up
          THEN /\ rate' = [rate EXCEPT ![id].count = n]
               /\ incrLog' = [incrLog EXCEPT ![id] = Append(@, r)]
               /\ Set(r, [reqs[r] EXCEPT
                       !.count = n,
                       !.allowed = Allowed(n, RATE_LIMIT_PER_MINUTE),
                       !.pc = IF n = 1 THEN "rl_expire" ELSE "rl_get"])
               /\ cacheWorked' = TRUE
          ELSE /\ Set(r, FailOpen(reqs[r]))
               /\ UNCHANGED <<rate, incrLog, cacheWorked>>
    /\ UNCHANGED <<config, idem, status, cache_up, broker, outages, expiries,
                   brokerFaulted, idemExpired>>

\* if current_count == 1: self.client.expire(key, window)
RateLimitExpire(r) ==
    /\ reqs[r].pc = "rl_expire"
    /\ LET id == Identifier(reqs[r])
       IN IF cache_up
          THEN /\ rate' = [rate EXCEPT ![id].ttl = (rate[id].count > 0)]
               /\ Set(r, [reqs[r] EXCEPT !.pc = "rl_get"])
               /\ cacheWorked' = TRUE
          ELSE /\ Set(r, FailOpen(reqs[r]))
               /\ UNCHANGED <<rate, cacheWorked>>
    /\ UNCHANGED <<config, idem, status, cache_up, broker, incrLog, outages,
                   expiries, brokerFaulted, idemExpired>>

\* ------------------------------------------------------- get_rate_limit_info
\* The dictionary returned when a command of get_rate_limit_info raises.
InfoFallback == [limit |-> 0, remaining |-> 0, reset_in_seconds |-> WINDOW]

Max(a, b) == IF a >= b THEN a ELSE b

\* redis TTL: -2 for a missing key, -1 for a key without expiry; a live TTL
\* is read as the whole window (the seconds elapsed are not modelled).
Ttl(entry) == IF entry.count = 0 THEN 0 - 2 ELSE IF ~entry.ttl THEN 0 - 1 ELSE WINDOW

\* The dictionary get_rate_limit_info builds from count and ttl.
RateInfo(count, ttl) ==
    [limit |-> RATE_LIMIT_PER_MINUTE,
     remaining |-> Max(0, RATE_LIMIT_PER_MINUTE - count),
     reset_in_seconds |-> IF ttl > 0 THEN ttl ELSE WINDOW]

\* Fault variant: the wrapped handler entered whatever check_rate_limit said
AfterInfoAdmits(rec, info) == AfterValidation([rec EXCEPT !.info = info])
\* rate_limit, lines 27-44: with rate_info in hand, a request that is not
\* allowed is answered 429, any other enters the wrapped handler.
AfterInfo(rec, info) ==
    IF ~rec.allowed
    THEN Return([rec EXCEPT !.info = info], 429, StandardError("rate_limit_exceeded"))
    ELSE AfterValidation([rec EXCEPT !.info = info])

\* get_rate_limit_info: GET and TTL of the counter.  (With the seconds
\* elapsed not modelled, whatever happens between the two reads leaves the
\* dictionary one that reading both at once also gives; an exception of
\* either read gives the fallback.)
GetRateLimitInfo(r) ==
    /\ reqs[r].pc = "rl_get"
    /\ IF cache_up
       THEN /\ Set(r, AfterInfo(reqs[r],
                       RateInfo(rate[Identifier(reqs[r])].count,
                                Ttl(rate[Identifier(reqs[r])]))))
            /\ cacheWorked' = TRUE
       ELSE /\ Set(r, AfterInfo(reqs[r], InfoFallback))
            /\ UNCHANGED cacheWorked
    /\ UNCHANGED <<config, redis, broker, incrLog, outages, expiries,
                   brokerFaulted, idemExpired>>

\* ------------------------------------------------- the submission handlers
\* Fault variant: the cached response ignored
AfterLookupMiss(rec, cached) == [rec EXCEPT !.pc = "gate"]
\* Fault variant: a cached response replayed only on the route that stored it
AfterLookupSameRoute(rec, cached) ==
    IF cached # Nil /\ json_loads(cached).message = MessageOf(rec.route)
    THEN Return(rec, ReplayCode(rec.route), json_loads(cached))
    ELSE [rec EXCEPT !.pc = "gate"]
\* What the handler does with check_idempotency's result.
AfterLookup(rec, cached) ==
    IF cached # Nil
    THEN Return(rec, ReplayCode(rec.route), json_loads(cached))
    ELSE [rec EXCEPT !.pc = "gate"]

\* CacheService.check_idempotency: GET idempotency:<key>; None on an exception.
CheckIdempotency(r) ==
    /\ reqs[r].pc = "idem_get"
    /\ IF cache_up
       THEN /\ Set(r, AfterLookup(reqs[r], idem[KeyOf(reqs[r].data)]))
            /\ cacheWorked' = TRUE
       ELSE /\ Set(r, AfterLookup(reqs[r], Nil))
            /\ UNCHANGED cacheWorked
    /\ UNCHANGED <<config, redis, broker, incrLog, outages, expiries,
                   brokerFaulted, idemExpired>>

\* Fault variant: a probe that always reports the connection open
AlwaysConnected == TRUE
\* QueueService.is_connected, as the truth value its callers test
is_connected == IsConnectedValue(connection, channel) = "True"

\* Fault variant: the gate left out
AfterGateOpen(rec, connected) == [rec EXCEPT !.pc = "pub_connect"]
\* if not current_app.queue_service or not ...is_connected(): 503
AfterGate(rec, connected) ==
    IF queue_service = "none" \/ ~connected
    THEN Return(rec, 503, StandardError("service_unavailable"))
    ELSE [rec EXCEPT !.pc = "pub_connect"]

AvailabilityGate(r) ==
    /\ reqs[r].pc = "gate"
    /\ Set(r, AfterGate(reqs[r], is_connected))
    /\ UNCHANGED <<config, redis, broker, incrLog, history>>

\* The handler's except clause: 500 queue_error.
QueueError(rec) == Return(rec, 500, StandardError("queue_error"))

\* publish_notification, lines 145-147: if not self.is_connected(): self.connect()
\* connect() builds its parameters, opens the connection and the channel and
\* declares the topology again; whatever raises is re-raised to the handler.
PublishConnect(r) ==
    /\ reqs[r].pc = "pub_connect"
    /\ IF is_connected
       THEN /\ Set(r, [reqs[r] EXCEPT !.pc = "pub_send"])
            /\ UNCHANGED <<link, brokerFaulted, amqp>>
       ELSE LET c == ConnectResult(connection, channel, topology, broker_up)
            IN /\ parameters' = ParametersOf(RABBITMQ_URL, RABBITMQ_HOST)
               /\ connection' = c.connection
               /\ channel' = c.channel
               /\ topology' = c.topology
               /\ brokerFaulted' = (brokerFaulted \/ c.raised)
               /\ Set(r, IF c.raised
                         THEN QueueError(reqs[r])
                         ELSE [reqs[r] EXCEPT !.pc = "pub_send",
                                              !.reconnected = TRUE])
    /\ UNCHANGED <<config, redis, service, broker_up, published, nextId, incrLog,
                   outages, expiries, cacheWorked, idemExpired>>

\* _setup_exchange_and_queues: the queues declared and the routing key each
\* is bound with, on the one direct exchange.
Bindings ==
    { [queue |-> "email.queue", routing_key |-> "email"],
      [queue |-> "push.queue", routing_key |-> "push"] }

\* A direct exchange hands a message to the queues bound with its routing key.
DeliveredTo(routing_key) ==
    {b.queue : b \in {x \in Bindings : x.routing_key = routing_key}}

\* Fault variant: every message published with the routing key of the email queue
EnvelopeToEmail(nid, corr, route, data) ==
    [notification_id |-> nid, correlation_id |-> corr, type |-> route,
     user_id |-> data.user_id.val, template_id |-> data.template_id.val,
     idempotency_key |-> KeyOf(data), routing_key |-> "email",
     retry_count |-> RETRY_COUNT, max_retries |-> MAX_RETRIES]
\* Fault variant: the notification id reused as the correlation id, and the
\* message published as already retried once
EnvelopeRetried(nid, corr, route, data) ==
    [notification_id |-> nid, correlation_id |-> nid, type |-> route,
     user_id |-> data.user_id.val, template_id |-> data.template_id.val,
     idempotency_key |-> KeyOf(data), routing_key |-> route,
     retry_count |-> RETRY_COUNT + 1, max_retries |-> MAX_RETRIES]
\* The message publish_notification builds.
Envelope(nid, corr, route, data) ==
    [notification_id |-> nid, correlation_id |-> corr, type |-> route,
     user_id |-> data.user_id.val, template_id |-> data.template_id.val,
     idempotency_key |-> KeyOf(data), routing_key |-> route,
     retry_count |-> RETRY_COUNT, max_retries |-> MAX_RETRIES]

\* Fault variant: the correlation id returned to the client as notification id
AfterPublishCorrelation(rec, nid) ==
    LET body == StandardSuccess(nid + 1, EtaOf(rec.route), MessageOf(rec.route))
    IN IF cache_service = "svc"
       THEN [rec EXCEPT !.pub = nid, !.body = body, !.pc = "set_status"]
       ELSE Return([rec EXCEPT !.pub = nid], 202, body)
\* Fault variant: without a cache service the handler fails after publishing
AfterPublishNeedsCache(rec, nid) ==
    LET body == StandardSuccess(nid, EtaOf(rec.route), MessageOf(rec.route))
    IN IF cache_service = "svc"
       THEN [rec EXCEPT !.pub = nid, !.body = body, !.pc = "set_status"]
       ELSE QueueError([rec EXCEPT !.pub = nid])
\* What the handler does once publish_notification has returned the id: the
\* response is built, and the records are written when there is a cache.
AfterPublish(rec, nid) ==
    LET body == StandardSuccess(nid, EtaOf(rec.route), MessageOf(rec.route))
    IN IF cache_service = "svc"
       THEN [rec EXCEPT !.pub = nid, !.body = body, !.pc = "set_status"]
       ELSE Return([rec EXCEPT !.pub = nid], 202, body)

\* Fault variant: the exception of basic_publish swallowed, the id returned
PublishFailedSwallowed(rec) == AfterPublish(rec, nextId)
\* basic_publish raised: publish_notification re-raises, the handler's
\* except clause answers.
PublishFailed(rec) == QueueError(rec)

\* publish_notification, line 181: the handler enters channel.basic_publish
\* and starts writing the frames of its message on the shared channel.  No
\* lock is taken: QueueService holds one BlockingConnection for all handlers.
PublishBegin(r) ==
    /\ reqs[r].pc = "pub_send"
    /\ Set(r, [reqs[r] EXCEPT !.pc = "publishing"])
    /\ UNCHANGED <<config, redis, broker, incrLog, history>>

\* publish_notification, lines 149-201: two uuid4, the message, and the end of
\* basic_publish.  An exception of basic_publish is re-raised; it may have
\* closed the channel.  (The two ids of a failed publish are seen by nobody:
\* they are not consumed.)  When handlers write to the channel at the same
\* time the outcome of each is any of these.
PublishSend(r) ==
    /\ reqs[r].pc = "publishing"
    /\ \E ok \in BOOLEAN, closes \in Losses :
        IF ok /\ conn_open /\ broker_up
        THEN /\ published' = published \cup
                    {Envelope(nextId, nextId + 1, reqs[r].route, reqs[r].data)}
             /\ nextId' = nextId + 2
             /\ Set(r, AfterPublish(reqs[r], nextId))
             /\ UNCHANGED <<link, brokerFaulted>>
        ELSE /\ Set(r, PublishFailed(reqs[r]))
             /\ connection' = AfterLoss(closes, connection, channel).connection
             /\ channel' = AfterLoss(closes, connection, channel).channel
             /\ brokerFaulted' = TRUE
             /\ UNCHANGED <<published, nextId>>
    /\ UNCHANGED <<config, redis, service, broker_up, amqp, incrLog, outages,
                   expiries, cacheWorked, idemExpired>>

\* Fault variant: the record written as already being processed
StatusDataProcessing(rec) ==
    [notification_id |-> rec.pub, type |-> rec.route, status |-> "processing",
     user_id |-> rec.data.user_id.val, template_id |-> rec.data.template_id.val]
\* status_data of the handler.
StatusData(rec) ==
    [notification_id |-> rec.pub, type |-> rec.route, status |-> "queued",
     user_id |-> rec.data.user_id.val, template_id |-> rec.data.template_id.val]

\* SETEX key: the entry of `key` is replaced.
Setex(store, key, value) ==
    {e \in store : e.key # key} \cup {[key |-> key, value |-> value]}

\* Fault variant: an exception after the status write reaches the except clause
AfterStatusRaises(rec) == QueueError(rec)
\* After set_notification_status: store_idempotency when a key was given.
AfterStatus(rec) ==
    IF KeyOf(rec.data) # "" THEN [rec EXCEPT !.pc = "store_idem"]
    ELSE Return(rec, 202, rec.body)

\* CacheService.set_notification_status: SETEX notification:<id>:status
SetNotificationStatus(r) ==
    /\ reqs[r].pc = "set_status"
    /\ IF cache_up
       THEN /\ status' = Setex(status, reqs[r].pub, StatusData(reqs[r]))
            /\ Set(r, AfterStatus([reqs[r] EXCEPT !.wroteStatus = TRUE]))
            /\ cacheWorked' = TRUE
       ELSE /\ Set(r, AfterStatus(reqs[r]))
            /\ UNCHANGED <<status, cacheWorked>>
    /\ UNCHANGED <<config, rate, idem, cache_up, broker, incrLog, outages,
                   expiries, brokerFaulted, idemExpired>>

\* CacheService.store_idempotency: SETEX idempotency:<key> json.dumps(response)
StoreIdempotency(r) ==
    /\ reqs[r].pc = "store_idem"
    /\ IF cache_up
       THEN /\ idem' = [idem EXCEPT ![KeyOf(reqs[r].data)] = json_dumps(reqs[r].body)]
            /\ Set(r, Return([reqs[r] EXCEPT !.wroteIdem = TRUE], 202, reqs[r].body))
            /\ cacheWorked' = TRUE
       ELSE /\ Set(r, Return(reqs[r], 202, reqs[r].body))
            /\ UNCHANGED <<idem, cacheWorked>>
    /\ UNCHANGED <<config, rate, status, cache_up, broker, incrLog, outages,
                   expiries, brokerFaulted, idemExpired>>

\* ------------------------------------------------------- the status route
\* get_notification_status(notification_id), lines 205-211: without a cache
\* service the route answers 503; else cache_service.is_connected() pings.
StatusEntry(rec) ==
    IF cache_service = "none"
    THEN Return(rec, 503, StandardError("service_unavailable"))
    ELSE [rec EXCEPT !.pc = "st_ping"]

\* GET /status/<notification_id> arrives; only require_api_key wraps the route.
GetNotificationStatus(hdr, nid) ==
    /\ "status" \in load.routes
    /\ Len(reqs) < load.requests
    /\ load.threaded \/ InFlight = {}
    /\ LET a == AuthOutcome(hdr)
           new == [NewRequest("status", EmptyData) EXCEPT !.query = nid]
           rec == IF a.code # 0
                  THEN Return(new, a.code, StandardError(a.error))
                  ELSE StatusEntry([new EXCEPT !.api_key = hdr])
       IN reqs' = Append(reqs, rec)
    /\ UNCHANGED <<config, redis, broker, incrLog, history>>

\* CacheService.is_connected: PING; False on an exception, and the route
\* answers 503 service_unavailable.
StatusPing(r) ==
    /\ reqs[r].pc = "st_ping"
    /\ IF cache_up
       THEN /\ Set(r, [reqs[r] EXCEPT !.pc = "st_get"])
            /\ cacheWorked' = TRUE
       ELSE /\ Set(r, Return(reqs[r], 503, StandardError("service_unavailable")))
            /\ UNCHANGED cacheWorked
    /\ UNCHANGED <<config, redis, broker, incrLog, outages, expiries,
                   brokerFaulted, idemExpired>>

\* What GET notification:<id>:status gives when the key is missing (None).
NoStatus ==
    [notification_id |-> 0, type |-> "", status |-> "", user_id |-> "",
     template_id |-> ""]

\* Fault variant: the record looked up under a key nobody wrote
GetStatusMiss(store, key) == NoStatus
\* redis GET of a status record.
GetStatus(store, key) ==
    IF \E e \in store : e.key = key
    THEN (CHOOSE e \in store : e.key = key).value
    ELSE NoStatus

\* StatusResponse.create wrapped in StandardResponse.success.
StatusSuccess(status_data) ==
    [success |-> TRUE, error |-> "", notification_id |-> status_data.notification_id,
     status |-> status_data.status, estimated_delivery |-> "",
     message |-> "Notification status retrieved successfully"]

\* The route's answer to what get_notification_status returned.
AfterStatusLookup(rec, status_data) ==
    IF status_data = NoStatus
    THEN Return(rec, 404, StandardError("not_found"))
    ELSE Return([rec EXCEPT !.delivery = [type |-> status_data.type,
                                          user_id |-> status_data.user_id,
                                          template_id |-> status_data.template_id]],
                200, StatusSuccess(status_data))

\* CacheService.get_notification_status: GET; None on an exception.
StatusGet(r) ==
    /\ reqs[r].pc = "st_get"
    /\ IF cache_up
       THEN /\ Set(r, AfterStatusLookup(reqs[r], GetStatus(status, reqs[r].query)))
            /\ cacheWorked' = TRUE
       ELSE /\ Set(r, AfterStatusLookup(reqs[r], NoStatus))
            /\ UNCHANGED cacheWorked
    /\ UNCHANGED <<config, redis, broker, incrLog, outages, expiries,
                   brokerFaulted, idemExpired>>

\* ------------------------------------------------------- the environment
\* The Redis backend becomes unreachable: from now on every command raises.
CacheDown ==
    /\ cache_service = "svc"
    /\ cache_up
    /\ outages < MaxOutages
    /\ cache_up' = FALSE
    /\ outages' = outages + 1
    /\ UNCHANGED <<config, reqs, rate, idem, status, broker, incrLog, expiries,
                   cacheWorked, brokerFaulted, idemExpired>>

\* The Redis backend answers again.
CacheUp ==
    /\ cache_service = "svc"
    /\ ~cache_up
    /\ cache_up' = TRUE
    /\ UNCHANGED <<config, reqs, rate, idem, status, broker, incrLog, history>>

\* RabbitMQ goes away.  The client learns of it at its next operation on the
\* connection: is_open stays as it is.
BrokerDown ==
    /\ broker_up
    /\ broker_up' = FALSE
    /\ UNCHANGED <<config, reqs, redis, service, link, published, nextId, amqp,
                   incrLog, history>>

\* RabbitMQ accepts connections again.
BrokerUp ==
    /\ ~broker_up
    /\ broker_up' = TRUE
    /\ UNCHANGED <<config, reqs, redis, service, link, published, nextId, amqp,
                   incrLog, history>>

\* The window of a rate-limit counter that has an expiry elapses.
ExpireRate(i) ==
    /\ expiries < MaxExpiries
    /\ rate[i].count > 0
    /\ rate[i].ttl
    /\ rate' = [rate EXCEPT ![i] = [count |-> 0, ttl |-> FALSE]]
    /\ incrLog' = [incrLog EXCEPT ![i] = <<>>]
    /\ expiries' = expiries + 1
    /\ UNCHANGED <<config, reqs, idem, status, cache_up, broker, outages,
                   cacheWorked, brokerFaulted, idemExpired>>

\* The TTL of an idempotency record elapses.
ExpireIdem(k) ==
    /\ expiries < MaxExpiries
    /\ idem[k] # Nil
    /\ idem' = [idem EXCEPT ![k] = Nil]
    /\ idemExpired' = TRUE
    /\ expiries' = expiries + 1
    /\ UNCHANGED <<config, reqs, rate, status, cache_up, broker, incrLog,
                   outages, cacheWorked, brokerFaulted>>

\* The TTL of a status record elapses.
ExpireStatus(e) ==
    /\ expiries < MaxExpiries
    /\ e \in status
    /\ status' = status \ {e}
    /\ expiries' = expiries + 1
    /\ UNCHANGED <<config, reqs, rate, idem, cache_up, broker, incrLog,
                   outages, cacheWorked, brokerFaulted, idemExpired>>

\* ------------------------------------------------------------------- Next
Next ==
    \/ \E hdr \in load.headers, route \in load.routes \cap Routes,
             data \in load.payloads :
          RequireApiKey(hdr, route, data)
    \/ \E hdr \in load.headers, nid \in QueryIds : GetNotificationStatus(hdr, nid)
    \/ \E r \in Indices : StatusPing(r)
    \/ \E r \in Indices : StatusGet(r)
    \/ \E r \in Indices : RateLimitIncr(r)
    \/ \E r \in Indices : RateLimitExpire(r)
    \/ \E r \in Indices : GetRateLimitInfo(r)
    \/ \E r \in Indices : CheckIdempotency(r)
    \/ \E r \in Indices : AvailabilityGate(r)
    \/ \E r \in Indices : PublishConnect(r)
    \/ \E r \in Indices : PublishBegin(r)
    \/ \E r \in Indices : PublishSend(r)
    \/ \E r \in Indices : SetNotificationStatus(r)
    \/ \E r \in Indices : StoreIdempotency(r)
    \/ CacheDown
    \/ CacheUp
    \/ BrokerDown
    \/ BrokerUp
    \/ \E i \in Identifiers : ExpireRate(i)
    \/ \E k \in IdemKeys : ExpireIdem(k)
    \/ \E e \in status : ExpireStatus(e)

Spec == Init /\ [][Next]_vars

\* ------------------------------------------------- the gateway kept running
\* The deployments without a cache service, with clients that never stop
\* submitting: no rate limiting, no records, the broker path alone.
LiveScenarios ==
    { Deployment(ConfiguredKeys, CloudUrl, "none", "svc",
          Workload(TRUE, MaxOverlap, {"A"}, {"email"}, {PlainData})),
      Deployment(ConfiguredKeys, NoUrl, "none", "none",
          Workload(TRUE, MaxOverlap, {"A"}, {"push"}, {PlainData})) }

LiveInit == \E scenario \in LiveScenarios : InitWith(scenario)

\* The answered requests are over and the consumers have drained the queues:
\* what is kept of them is forgotten, and the next requests arrive.
Recycle ==
    /\ reqs # <<>>
    /\ InFlight = {}
    /\ reqs' = <<>>
    /\ published' = {}
    /\ nextId' = 1
    /\ UNCHANGED <<config, redis, service, link, broker_up, amqp, incrLog,
                   history>>

\* A step of some handler's thread.
HandlerStep ==
    \E r \in Indices :
        \/ AvailabilityGate(r)
        \/ PublishConnect(r)
        \/ PublishBegin(r)
        \/ PublishSend(r)

\* Without a cache service these are all the steps of Next that can be taken.
LiveNext ==
    \/ \E hdr \in load.headers, route \in load.routes \cap Routes,
             data \in load.payloads :
          RequireApiKey(hdr, route, data)
    \/ \E r \in Indices : AvailabilityGate(r)
    \/ \E r \in Indices : PublishConnect(r)
    \/ \E r \in Indices : PublishBegin(r)
    \/ \E r \in Indices : PublishSend(r)
    \/ BrokerDown
    \/ BrokerUp
    \/ Recycle

\* Every handler runs in a thread of its own that the scheduler keeps running.
LiveSpec == LiveInit /\ [][LiveNext]_vars /\ WF_vars(HandlerStep)

\* --------------------------------------------- the queue service by itself
\* The module of QueueService driven by any caller, one call at a time, from
\* the moment it is imported: no instance yet, a broker that may or may not
\* be reachable, and that is either fresh or already holds an exchange of the
\* configured name that somebody else declared with other properties.
ForeignTopology ==
    [exchanges |-> {[name |-> RABBITMQ_EXCHANGE, type |-> "fanout",
                     durable |-> FALSE]},
     queues |-> {}, bindings |-> {}]

ServiceScenarios ==
    { Deployment(ConfiguredKeys, url, "none", "none",
          Workload(FALSE, 0, {}, {}, {})) : url \in {CloudUrl, NoUrl} }

ServiceInit ==
    \E scenario \in ServiceScenarios, t \in {NoTopology, ForeignTopology},
       up \in BOOLEAN :
        /\ InitApp(scenario)
        /\ broker_up = up
        /\ instance = "none"
        /\ connection = "none"
        /\ channel = "none"
        /\ topology = t
        /\ call = NoCall

\* What no call on the queue service touches.
rest == <<config, reqs, redis, published, nextId, incrLog, history>>

\* get_queue_service(): the global is assigned before connect() is called on
\* it, and an instance found in the global is returned as it is.
GetQueueService ==
    /\ IF instance = "none"
       THEN LET c == ConnectResult(connection, channel, topology, broker_up)
            IN /\ instance' = IF c.raised THEN "created" ELSE "connected"
               /\ parameters' = ParametersOf(RABBITMQ_URL, RABBITMQ_HOST)
               /\ connection' = c.connection
               /\ channel' = c.channel
               /\ topology' = c.topology
               /\ call' = [op |-> "get_queue_service",
                           result |-> IF c.raised THEN "" ELSE instance',
                           raised |-> c.raised]
       ELSE /\ call' = [op |-> "get_queue_service", result |-> instance,
                        raised |-> FALSE]
            /\ UNCHANGED <<instance, link, amqp>>
    /\ UNCHANGED <<rest, broker_up>>

\* connect() as publish_notification calls it, when the probe is falsy.
Connect ==
    /\ instance # "none"
    /\ ~is_connected
    /\ LET c == ConnectResult(connection, channel, topology, broker_up)
       IN /\ instance' = IF c.raised THEN instance ELSE "connected"
          /\ parameters' = ParametersOf(RABBITMQ_URL, RABBITMQ_HOST)
          /\ connection' = c.connection
          /\ channel' = c.channel
          /\ topology' = c.topology
          /\ call' = [op |-> "connect", result |-> "", raised |-> c.raised]
    /\ UNCHANGED <<rest, broker_up>>

\* is_connected(): the value of the and-chain; the bare except returns False
\* for whatever the chain could raise.
IsConnected ==
    /\ instance # "none"
    /\ call' = [op |-> "is_connected",
                result |-> IsConnectedValue(connection, channel),
                raised |-> FALSE]
    /\ UNCHANGED <<rest, instance, link, broker_up, amqp>>

\* The calls close() has made when it returns, in their order.
Closed(chan, conn) ==
    IF chan /\ conn THEN "channel,connection"
    ELSE IF chan THEN "channel"
    ELSE IF conn THEN "connection" ELSE ""

\* close(): one try block around both closes. channel.close() either closes
\* the channel or raises, and when it raises the channel is gone, with or
\* without its connection; the handler logs the exception, and
\* connection.close() is not reached.
Close ==
    /\ instance # "none"
    /\ \E fails \in BOOLEAN, lost \in Losses \ {"nothing"} :
        LET closesChannel == channel = "open"
            raisedAtChannel == closesChannel /\ fails
            after == IF raisedAtChannel
                     THEN AfterLoss(lost, connection, channel)
                     ELSE AfterLoss(IF closesChannel THEN "channel" ELSE "nothing",
                                    connection, channel)
            closesConnection == ~raisedAtChannel /\ after.connection = "open"
        IN /\ connection' = IF closesConnection THEN "closed"
                            ELSE after.connection
           /\ channel' = after.channel
           /\ call' = [op |-> "close",
                       result |-> Closed(closesChannel, closesConnection),
                       raised |-> FALSE]
    /\ UNCHANGED <<rest, instance, broker_up, amqp>>

\* The broker, or the network, ends the channel or the whole connection.
Drop ==
    /\ \E what \in Losses \ {"nothing"} :
        LET after == AfterLoss(what, connection, channel)
        IN /\ <<after.connection, after.channel>> # link
           /\ connection' = after.connection
           /\ channel' = after.channel
    /\ UNCHANGED <<rest, service, broker_up, amqp>>

ServiceNext ==
    \/ GetQueueService
    \/ Connect
    \/ IsConnected
    \/ Close
    \/ Drop
    \/ BrokerDown
    \/ BrokerUp

ServiceSpec == ServiceInit /\ [][ServiceNext]_vars

\* ================================================================ claims
\* What a finished handler answered, by name.
Outcome(rec) ==
    IF rec.pc # "done" THEN "running"
    ELSE IF ~rec.body.success THEN rec.body.error
    ELSE IF rec.route = "status" THEN "found"
    ELSE IF rec.pub # 0 THEN "queued" ELSE "replayed"

Finished == {r \in Indices : Done(r)}
\* The finished submissions that carried idempotency key k past authentication.
WithKey(k) == {r \in Finished : reqs[r].api_key # "" /\ KeyOf(reqs[r].data) = k}
\* The submissions the rate limiter admitted and validation passed.
RanOrchestrator(r) ==
    Outcome(reqs[r]) \in {"queued", "replayed", "service_unavailable", "queue_error"}
PublishedIds == {e.notification_id : e \in published}
PublishedFor(k) == {e \in published : e.idempotency_key = k}

\* ---------------------------------------------------------------- C1
\* C1 as stated: of non-overlapping submissions with the same non-empty
\* idempotency key, every one after the first that was queued returns the
\* body of that first one and publishes nothing.
C1_EveryResubmissionReplays ==
    ~load.threaded =>
        \A k \in IdemKeys : \A i, j \in WithKey(k) :
            (i < j /\ Outcome(reqs[i]) = "queued" /\ RanOrchestrator(j)) =>
                /\ reqs[j].body = reqs[i].body
                /\ reqs[j].pub = 0

\* C1, amended: of non-overlapping submissions with the same non-empty
\* idempotency key, once one has returned 202 queued, every later one that
\* the rate limiter admits and that passes validation returns the identical
\* body (same notification_id) and publishes nothing, as long as Redis has
\* answered every command and the idempotency record has not expired.
C1_ReplayWhileCached ==
    (~load.threaded /\ cache_service = "svc" /\ outages = 0 /\ ~idemExpired) =>
        \A k \in IdemKeys : \A i, j \in WithKey(k) :
            (i < j /\ Outcome(reqs[i]) = "queued" /\ RanOrchestrator(j)) =>
                /\ reqs[j].body = reqs[i].body
                /\ reqs[j].body.notification_id = reqs[i].pub
                /\ reqs[j].pub = 0
                /\ Cardinality(PublishedFor(k)) = 1

C1_Witness ==
    /\ ~load.threaded /\ outages = 0 /\ ~idemExpired
    /\ \E k \in IdemKeys : \E i, j \in WithKey(k) :
        /\ i < j
        /\ Outcome(reqs[i]) = "queued"
        /\ Outcome(reqs[j]) = "replayed"
        /\ reqs[j].body = reqs[i].body

\* ---------------------------------------------------------------- C2
\* C2: however the handlers of submissions that share an idempotency key
\* interleave, all their success responses carry one notification_id and at
\* most one message is published for the key.  (Stated for the runs in which
\* Redis answers every command and no record expires.)
C2_OneResponsePerKey ==
    (outages = 0 /\ ~idemExpired /\ cache_service = "svc") =>
        \A k \in IdemKeys :
            /\ \A i, j \in WithKey(k) :
                (reqs[i].body.success /\ reqs[j].body.success) =>
                    reqs[i].body.notification_id = reqs[j].body.notification_id
            /\ Cardinality(PublishedFor(k)) <= 1

\* ---------------------------------------------------------------- C3
\* C3: every status record and every idempotency record in the cache names a
\* notification_id that has been published.
C3_RecordedOnlyAfterPublish ==
    /\ \A e \in status :
        /\ e.value.notification_id = e.key
        /\ e.key \in PublishedIds
    /\ \A k \in IdemKeys :
        idem[k] # Nil => json_loads(idem[k]).notification_id \in PublishedIds

C3_Witness ==
    /\ status # {}
    /\ \E k \in IdemKeys : idem[k] # Nil
    /\ brokerFaulted

\* ---------------------------------------------------------------- C4
\* C4: an idempotency hit is answered with status code 202, on both routes.
C4_ReplayReturns202 ==
    \A r \in Finished : Outcome(reqs[r]) = "replayed" => reqs[r].code = 202

\* ---------------------------------------------------------------- C5
\* C5: a handler that finds the publisher absent or not connected at the
\* availability gate returns 503 service_unavailable in that step, which
\* publishes nothing and writes nothing to the cache; and no handler that
\* answered service_unavailable has published or written a record.
C5_GateStep ==
    \A r \in Indices :
        (/\ reqs[r].pc = "gate"
         /\ reqs'[r] # reqs[r]
         /\ (queue_service = "none" \/ ~conn_open)) =>
            /\ reqs'[r].pc = "done"
            /\ reqs'[r].code = 503
            /\ reqs'[r].body = StandardError("service_unavailable")
            /\ published' = published
            /\ status' = status
            /\ idem' = idem

C5_NoEffects ==
    \A r \in Finished :
        Outcome(reqs[r]) = "service_unavailable" =>
            /\ reqs[r].code = 503
            /\ reqs[r].pub = 0
            /\ ~reqs[r].wroteStatus
            /\ ~reqs[r].wroteIdem

C5_UnavailableMutatesNothing == []C5_NoEffects /\ [][C5_GateStep]_vars

C5_Witness ==
    \E r \in Finished :
        /\ Outcome(reqs[r]) = "service_unavailable"
        /\ queue_service = "svc"
        /\ ~conn_open

\* ---------------------------------------------------------------- C6
\* C6: a handler that answered 500 queue_error has written neither a status
\* record nor an idempotency record (and has published nothing).
C6_QueueErrorRecordsNothing ==
    \A r \in Finished :
        Outcome(reqs[r]) = "queue_error" =>
            /\ reqs[r].code = 500
            /\ reqs[r].pub = 0
            /\ ~reqs[r].wroteStatus
            /\ ~reqs[r].wroteIdem
            /\ \A e \in status : e.key \in PublishedIds

C6_Witness ==
    \E r \in Finished :
        /\ Outcome(reqs[r]) = "queue_error"
        /\ cache_service = "svc"
        /\ status # {}

\* ---------------------------------------------------------------- C7
\* C7: the k-th request counted in an identifier's window is admitted if and
\* only if k <= RATE_LIMIT_PER_MINUTE; a request that is not admitted is
\* answered 429 rate_limit_exceeded, an admitted one never is.
C7_AdmittedIffWithinLimit ==
    \A i \in ConfiguredKeys : \A k \in 1..Len(incrLog[i]) :
        LET rec == reqs[incrLog[i][k]]
        IN /\ rec.allowed <=> (k <= RATE_LIMIT_PER_MINUTE)
           /\ rec.pc = "done" =>
                ((k > RATE_LIMIT_PER_MINUTE) <=>
                    (rec.code = 429 /\ rec.body = StandardError("rate_limit_exceeded")))

C7_Witness ==
    \E i \in ConfiguredKeys :
        /\ Len(incrLog[i]) = RATE_LIMIT_PER_MINUTE + 1
        /\ \A k \in 1..Len(incrLog[i]) : reqs[incrLog[i][k]].pc = "done"
        /\ reqs[incrLog[i][RATE_LIMIT_PER_MINUTE]].code = 400
        /\ reqs[incrLog[i][RATE_LIMIT_PER_MINUTE + 1]].code = 429

\* ---------------------------------------------------------------- C8
\* C8: every rate-limit counter in the cache has its window expiry set, once
\* the check_rate_limit call that created it is over, whatever commands failed.
C8_CounterHasExpiry ==
    \A i \in ConfiguredKeys :
        (/\ rate[i].count > 0
         /\ \A r \in Indices : ~(reqs[r].pc = "rl_expire" /\ reqs[r].api_key = i)) =>
            rate[i].ttl

\* ---------------------------------------------------------------- C9
\* C9: however the handlers interleave, the counter of an identifier equals
\* the number of requests counted in its window, the counts handed to them
\* are 1, 2, ... in the order of their increments, and at most
\* RATE_LIMIT_PER_MINUTE of them are admitted.
C9_NoLostIncrement ==
    \A i \in ConfiguredKeys :
        /\ rate[i].count = Len(incrLog[i])
        /\ \A k \in 1..Len(incrLog[i]) :
            reqs[incrLog[i][k]].count \in {k, 0}
        /\ Cardinality({k \in 1..Len(incrLog[i]) : reqs[incrLog[i][k]].allowed})
               <= RATE_LIMIT_PER_MINUTE

C9_Witness ==
    /\ load.threaded
    /\ \E i \in ConfiguredKeys :
        /\ rate[i].count = RATE_LIMIT_PER_MINUTE + 1
        /\ \A k \in 1..Len(incrLog[i]) : reqs[incrLog[i][k]].pc = "rl_get"

\* ---------------------------------------------------------------- C10
\* C10: while no Redis command has succeeded (or the cache service was never
\* created) and no broker operation has failed, every finished authenticated
\* valid submission without idempotency key was admitted, has published its
\* message and was answered 202 queued.
C10_FailOpenOnCacheOutage ==
    (/\ cache_service = "none" \/ ~cacheWorked
     /\ queue_service = "svc"
     /\ ~brokerFaulted) =>
        \A r \in Finished :
            (/\ reqs[r].api_key # ""
             /\ Validate(reqs[r].data) = {}
             /\ KeyOf(reqs[r].data) = "") =>
                /\ reqs[r].allowed
                /\ reqs[r].code = 202
                /\ Outcome(reqs[r]) = "queued"
                /\ reqs[r].body.notification_id = reqs[r].pub
                /\ reqs[r].pub \in PublishedIds

C10_Witness ==
    /\ cache_service = "svc"
    /\ ~cacheWorked
    /\ ~brokerFaulted
    /\ \E r \in Finished :
        /\ KeyOf(reqs[r].data) = ""
        /\ Outcome(reqs[r]) = "queued"
        /\ reqs[r].info = InfoFallback

\* ---------------------------------------------------------------- C11
\* C11: a submission answered validation_error has performed no broker
\* operation and no cache operation: it was not counted by the rate limiter,
\* read no rate-limit info, published nothing and wrote no record.
C11_ValidationTouchesNothing ==
    \A r \in Finished :
        Outcome(reqs[r]) = "validation_error" =>
            /\ reqs[r].count = 0
            /\ reqs[r].info = NoInfo
            /\ reqs[r].pub = 0
            /\ ~reqs[r].wroteStatus
            /\ ~reqs[r].wroteIdem

\* ---------------------------------------------------------------- C12
\* An authenticated submission without template_id.
NoTemplate(r) ==
    /\ reqs[r].route \in Routes
    /\ reqs[r].api_key # ""
    /\ reqs[r].data # EmptyData
    /\ ~Truthy(reqs[r].data.template_id)

\* C12: every finished authenticated submission without template_id that the
\* rate limiter admitted was answered 400 validation_error, whatever the state
\* of the broker and of the cache, and published nothing; when no Redis
\* command has succeeded (or there is no cache service) it was admitted.
C12_ValidationIndependent ==
    \A r \in Finished :
        NoTemplate(r) =>
            /\ Outcome(reqs[r]) \in {"validation_error", "rate_limit_exceeded"}
            /\ reqs[r].allowed =>
                (reqs[r].code = 400 /\ Outcome(reqs[r]) = "validation_error")
            /\ (cache_service = "none" \/ ~cacheWorked) => reqs[r].code = 400
            /\ reqs[r].pub = 0

C12_Witness ==
    /\ cache_service = "svc"
    /\ ~cacheWorked
    /\ ~cache_up
    /\ ~broker_up
    /\ \E r \in Finished :
        /\ NoTemplate(r)
        /\ reqs[r].code = 400
        /\ Outcome(reqs[r]) = "validation_error"

\* ---------------------------------------------------------------- C13
\* The finished authenticated status queries.
StatusQueries == {r \in Finished : reqs[r].route = "status" /\ reqs[r].api_key # ""}

\* The query answered 200 with the record of submission i.
AnsweredWith(j, i) ==
    /\ reqs[j].code = 200
    /\ reqs[j].body.notification_id = reqs[i].pub
    /\ reqs[j].body.status = "queued"
    /\ reqs[j].delivery.user_id = reqs[i].data.user_id.val
    /\ reqs[j].delivery.template_id = reqs[i].data.template_id.val

\* C13 as stated: while no TTL has elapsed, a status query made after a
\* submission returned 202 queued with id n, for n, answers 'queued' with the
\* submission's user_id and template_id, and a query for an id never issued
\* answers 404 not_found (queries answered 503 left aside).
C13_StatusRoundTrip ==
    (~load.threaded /\ expiries = 0) =>
        \A j \in StatusQueries :
            reqs[j].code # 503 =>
                /\ \A i \in Finished :
                    (i < j /\ Outcome(reqs[i]) = "queued"
                           /\ reqs[j].query = reqs[i].pub) => AnsweredWith(j, i)
                /\ reqs[j].query \notin PublishedIds => reqs[j].code = 404

\* C13, amended, the step of the lookup: a status query whose GET succeeds
\* answers 200 'queued' with the user_id and template_id of the published
\* message when the record of its id is in the cache, and 404 not_found when
\* it is not (expired, or never written); a GET that fails answers 404.
C13_LookupStep ==
    \A r \in Indices :
        (reqs[r].pc = "st_get" /\ reqs'[r] # reqs[r]) =>
            IF cache_up /\ \E e \in status : e.key = reqs[r].query
            THEN /\ reqs'[r].code = 200
                 /\ reqs'[r].body.status = "queued"
                 /\ reqs'[r].body.notification_id = reqs[r].query
                 /\ \E m \in published :
                        /\ m.notification_id = reqs[r].query
                        /\ reqs'[r].delivery.type = m.type
                        /\ reqs'[r].delivery.user_id = m.user_id
                        /\ reqs'[r].delivery.template_id = m.template_id
            ELSE /\ reqs'[r].code = 404
                 /\ reqs'[r].body = StandardError("not_found")

\* C13, amended, the round trip: while no TTL has elapsed, the record of every
\* submission whose status write succeeded is in the cache; and with Redis
\* answering every command, a query made after the submission returned, for
\* its id, answers 'queued' with its user_id and template_id, and a query for
\* an id never issued answers 404.
C13_Recorded ==
    /\ expiries = 0 =>
        \A i \in Finished :
            reqs[i].wroteStatus =>
                [key |-> reqs[i].pub, value |-> StatusData(reqs[i])] \in status
    /\ (~load.threaded /\ expiries = 0 /\ outages = 0 /\ cache_service = "svc") =>
        \A j \in StatusQueries :
            /\ \A i \in Finished :
                (i < j /\ Outcome(reqs[i]) = "queued"
                       /\ reqs[j].query = reqs[i].pub) => AnsweredWith(j, i)
            /\ reqs[j].query \notin PublishedIds => reqs[j].code = 404

C13_StatusWhileRecorded == []C13_Recorded /\ [][C13_LookupStep]_vars

C13_Witness ==
    /\ ~load.threaded
    /\ \E j \in StatusQueries : \E i \in Finished :
        /\ i < j
        /\ Outcome(reqs[i]) = "queued"
        /\ reqs[j].query = reqs[i].pub
        /\ AnsweredWith(j, i)
        /\ reqs[j].delivery.user_id = "u1"
    /\ \E j \in StatusQueries : reqs[j].code = 404

\* ---------------------------------------------------------------- C14
\* C14: a status query never answers an error other than not_found: when
\* the cache backend is unavailable the lookup degrades to 'not found'.
C14_StatusDegradesToNotFound ==
    \A j \in StatusQueries :
        /\ Outcome(reqs[j]) \in {"found", "not_found"}
        /\ reqs[j].code \in {200, 404}

\* ---------------------------------------------------------------- C15
\* C15: every 429 rate_limit_exceeded response carries rate-limit metadata
\* with remaining = 0.
C15_RejectedHasNoneRemaining ==
    \A r \in Finished :
        Outcome(reqs[r]) = "rate_limit_exceeded" =>
            /\ reqs[r].code = 429
            /\ reqs[r].info.remaining = 0

\* ---------------------------------------------------------------- C16
\* C16: the rate-limit info handed to a request reports the configured limit,
\* and a remaining between 0 and that limit.
C16_InfoReportsLimit ==
    \A r \in Indices :
        reqs[r].info # NoInfo =>
            /\ reqs[r].info.limit = RATE_LIMIT_PER_MINUTE
            /\ reqs[r].info.remaining \in 0..RATE_LIMIT_PER_MINUTE

\* ---------------------------------------------------------------- C17
\* The handler has left publish_notification.
LeftPublish(rec) == rec.pc \in {"done", "set_status"}

\* C17 as stated: publish_notification called on a publisher that is not
\* connected raises without publishing and without connecting.
C17_PublishNeverConnects ==
    [][\A r \in Indices :
        (reqs[r].pc = "pub_connect" /\ ~conn_open /\ reqs'[r] # reqs[r]) =>
            /\ reqs'[r] = QueueError(reqs[r])
            /\ conn_open' = conn_open
            /\ published' = published]_vars

\* C17, amended: publish_notification called on a publisher that is not
\* connected first calls connect(); when that succeeds the connection is open
\* again and the publish goes on, when it raises the handler answers 500
\* queue_error with nothing published.  A basic_publish on a closed channel
\* raises and publishes nothing.  No publish is attempted twice: a handler
\* leaves publish_notification at the end of its one basic_publish.
C17_ConnectStep ==
    \A r \in Indices :
        /\ (reqs[r].pc = "pub_connect" /\ ~conn_open /\ reqs'[r] # reqs[r]) =>
            /\ published' = published
            /\ IF broker_up
               THEN conn_open' /\ reqs'[r].pc = "pub_send"
               ELSE ~conn_open' /\ reqs'[r] = QueueError(reqs[r])
        /\ (reqs[r].pc = "publishing" /\ reqs'[r] # reqs[r]) =>
            /\ LeftPublish(reqs'[r])
            /\ ~conn_open =>
                (reqs'[r] = QueueError(reqs[r]) /\ published' = published)
        /\ (reqs[r].pc = "done" /\ reqs[r].route \in Routes) => reqs'[r] = reqs[r]

C17_PublishConnectsOnce == [][C17_ConnectStep]_vars

C17_Witness ==
    \E r, q \in Finished :
        /\ Outcome(reqs[q]) = "queue_error"
        /\ reqs[r].reconnected
        /\ Outcome(reqs[r]) = "queued"

\* ---------------------------------------------------------------- C18
\* A valid, admitted submission is at the availability gate.
AtGate == \E r \in Indices : reqs[r].pc = "gate"

\* C18: when valid submissions keep arriving, the broker does not stay
\* reachable for ever with the connection closed for ever: some submission
\* re-establishes the connection.
C18_ReconnectsOnDemand == []<>AtGate => []<>(~broker_up \/ conn_open)

\* ---------------------------------------------------------------- C19
\* The handlers that are inside channel.basic_publish.
Publishing == {r \in Indices : reqs[r].pc = "publishing"}

\* C19: at most one handler at a time is writing to the shared channel.
C19_OnePublishAtATime == Cardinality(Publishing) <= 1

\* ---------------------------------------------------------------- C20
\* C20: every published message carries its type as routing key, the type is
\* the route it was submitted on, exactly one queue is bound to each of
\* 'email' and 'push', and so an email message is delivered to email.queue
\* alone and a push message to push.queue alone.
C20_RoutedByType ==
    /\ \A t \in Routes : Cardinality({b \in Bindings : b.routing_key = t}) = 1
    /\ Cardinality(Bindings) = Cardinality(Routes)
    /\ \A m \in published :
        /\ m.type \in Routes
        /\ m.routing_key = m.type
        /\ DeliveredTo(m.routing_key) =
               IF m.type = "email" THEN {"email.queue"} ELSE {"push.queue"}
    /\ \A r \in Indices :
        reqs[r].pub # 0 =>
            \E m \in published :
                m.notification_id = reqs[r].pub /\ m.type = reqs[r].route

C20_Witness ==
    /\ \E m \in published : m.type = "email" /\ DeliveredTo(m.routing_key) = {"email.queue"}
    /\ \E m \in published : m.type = "push" /\ DeliveredTo(m.routing_key) = {"push.queue"}

\* ---------------------------------------------------------------------- C21
\* What one run of _setup_exchange_and_queues leaves on an empty broker.
TopologyOnce == SetupExchangeAndQueues(NoTopology).topology

\* A connect() of a handler that finds the topology declared leaves it as it
\* is and does not raise: the handler goes on to publish.
C21_RedeclareStep ==
    \A r \in Indices :
        (/\ reqs[r].pc = "pub_connect"
         /\ reqs'[r] # reqs[r]
         /\ ~conn_open
         /\ broker_up
         /\ topology = TopologyOnce)
        => /\ topology' = topology
           /\ reqs'[r].pc = "pub_send"

\* The broker holds nothing (no connect() ever succeeded) or exactly what one
\* run declares: one durable direct exchange, the two queues, one binding
\* each; and one more run on it changes nothing and is not refused.
C21_Declared ==
    /\ topology \in {NoTopology, TopologyOnce}
    /\ SetupExchangeAndQueues(topology) = Declared(TopologyOnce)
    /\ topology = TopologyOnce =>
        /\ Cardinality(topology.exchanges) = 1
        /\ {q.name : q \in topology.queues} = {b.queue : b \in Bindings}
        /\ {[queue |-> b.queue, routing_key |-> b.routing_key] :
                b \in topology.bindings} = Bindings

\* C21: declaring the topology is idempotent: however many times connect()
\* (hence _setup_exchange_and_queues) runs, the broker holds the same exchange,
\* queues and bindings as after one run, and a repeated run does not raise.
C21_DeclarationIdempotent == []C21_Declared /\ [][C21_RedeclareStep]_vars

\* A handler reconnected, so the declarations ran at startup and again, and
\* then published.
C21_Witness ==
    \E r \in Indices :
        /\ reqs[r].reconnected
        /\ reqs[r].pub # 0
        /\ topology = TopologyOnce

\* ---------------------------------------------------------------------- C27
\* C27: connect() uses the connection-string form whenever RABBITMQ_URL is
\* configured, although host, port and credentials are configured too (they
\* always are: they have defaults), and the discrete form only when no URL is
\* configured.
C27_UrlTakesPrecedence ==
    /\ RABBITMQ_HOST # ""
    /\ RABBITMQ_URL # "" => parameters = URLParameters(RABBITMQ_URL)
    /\ RABBITMQ_URL = "" => parameters = ConnectionParameters(RABBITMQ_HOST)
    /\ parameters.form = "discrete" => RABBITMQ_URL = ""

\* A deployment with both a URL and a host configured whose handler called
\* connect() again and got through with the URL.
C27_Witness ==
    \E r \in Indices :
        /\ reqs[r].reconnected
        /\ RABBITMQ_URL = CloudUrl
        /\ parameters.form = "url"
        /\ conn_open

\* ---------------------------------------------------------------------- C22
\* Strings a client can send as an idempotency key or ask the status of, and
\* identifiers, chosen to look like keys of the other namespaces.
HostileTexts ==
    { <<>>, <<":">>, <<"1">>, <<"A">>, <<"k", "1">>,
      STATUS_SUFFIX, <<"1">> \o STATUS_SUFFIX,
      IDEMPOTENCY_PREFIX \o <<"k", "1">>,
      IDEMPOTENCY_PREFIX \o <<"1">> \o STATUS_SUFFIX,
      NOTIFICATION_PREFIX \o <<"1">> \o STATUS_SUFFIX,
      NOTIFICATION_PREFIX \o <<"A">>,
      RATE_LIMIT_PREFIX \o <<"A">>,
      RATE_LIMIT_PREFIX \o <<"1">> \o STATUS_SUFFIX }

\* Together with what the requests of the workloads carry.
KeyTexts ==
    HostileTexts \cup {Chars(k) : k \in IdemKeys} \cup
    {Chars(i) : i \in Identifiers} \cup
    {Decimal(n) : n \in 1..(2 * MaxRequests + 1)}

\* No key of one namespace is a key of another.
NamespacesDisjoint ==
    \A k \in KeyTexts, n \in KeyTexts, i \in KeyTexts :
        /\ IdempotencyKey(k) # StatusKey(n)
        /\ IdempotencyKey(k) # RateLimitKey(i)
        /\ StatusKey(n) # RateLimitKey(i)

\* The entries redis holds, and the keys they are stored under.
LiveCounters == {i \in Identifiers : rate[i].count > 0}
LiveRecords == {k \in IdemKeys : idem[k] # Nil}
Keyspace ==
    {RateLimitKey(Chars(i)) : i \in LiveCounters} \cup
    {IdempotencyKey(Chars(k)) : k \in LiveRecords} \cup
    {StatusKey(Decimal(e.key)) : e \in status}

\* Every entry has a key of its own.
C22_OneKeyPerEntry ==
    /\ NamespacesDisjoint
    /\ Cardinality(Keyspace) =
           Cardinality(LiveCounters) + Cardinality(LiveRecords) + Cardinality(status)

\* A write of one namespace leaves the entries of the two others as they are.
C22_WriteStep ==
    \A r \in Indices :
        reqs'[r] # reqs[r] =>
            /\ reqs[r].pc = "store_idem" => (rate' = rate /\ status' = status)
            /\ reqs[r].pc = "set_status" => (rate' = rate /\ idem' = idem)
            /\ reqs[r].pc = "rl_incr" => (idem' = idem /\ status' = status)

\* C22: the cache keys of the three namespaces never collide: idempotency:<k>,
\* notification:<n>:status and rate_limit:<i> are pairwise different whatever
\* k, n and i are, so an idempotency write, a status write and a rate-limit
\* increment never change an entry of another namespace.
C22_NamespacesNeverCollide == []C22_OneKeyPerEntry /\ [][C22_WriteStep]_vars

\* All three namespaces hold an entry at the same time.
C22_Witness ==
    /\ LiveCounters # {}
    /\ LiveRecords # {}
    /\ status # {}

\* ---------------------------------------------------------------------- C23
\* The finished submissions that passed authentication.
Submissions ==
    {r \in Finished : reqs[r].route \in Routes /\ reqs[r].api_key # ""}

\* The outcomes a submission has, each with its status code.
StructuredOutcomes ==
    { <<"rate_limit_exceeded", 429>>, <<"validation_error", 400>>,
      <<"replayed", 202>>, <<"service_unavailable", 503>>,
      <<"queue_error", 500>>, <<"queued", 202>> }

\* C23: every submission that passes authentication ends in exactly one of
\* rate_limit_exceeded (429), validation_error (400), replayed (202),
\* service_unavailable (503), queue_error (500), queued (202); no failure of
\* the broker or of the cache reaches the client as anything else.
C23_StructuredOutcome ==
    \A r \in Submissions :
        <<Outcome(reqs[r]), reqs[r].code>> \in StructuredOutcomes

\* ---------------------------------------------------------------------- C24
\* The handlers whose publish succeeded.
Publishers == {r \in Indices : reqs[r].pub # 0}

\* C24: every published envelope has retry_count 0 and max_retries 3, a
\* notification_id that no other published envelope has, and a correlation_id
\* different from its own notification_id.
C24_EnvelopeWellFormed ==
    /\ \A e \in published :
        /\ e.retry_count = 0
        /\ e.max_retries = 3
        /\ e.correlation_id # e.notification_id
        /\ \A f \in published : f.notification_id = e.notification_id => f = e
    /\ Cardinality(published) = Cardinality(Publishers)
    /\ \A r, q \in Publishers : reqs[r].pub = reqs[q].pub => r = q

\* Two envelopes have been published.
C24_Witness == Cardinality(published) >= 2

\* ---------------------------------------------------------------------- C25
\* Every record is a 'queued' record stored under its own notification id.
C25_QueuedUnderOwnId ==
    \A e \in status :
        /\ e.value.status = "queued"
        /\ e.value.notification_id = e.key

\* A step that changes the status records either expires some or adds one
\* record under an id that had none; no record that stays changes.
C25_WriteStep ==
    status' # status =>
        \/ status' \subseteq status
        \/ \E e \in status' \ status :
            /\ status' = status \cup {e}
            /\ \A f \in status : f.key # e.key

\* C25: every status record the gateway writes has status 'queued' and a
\* notification_id field equal to the id it is stored under; the gateway
\* writes no other status value and never rewrites an existing record.
C25_StatusWrittenOnceAsQueued == []C25_QueuedUnderOwnId /\ [][C25_WriteStep]_vars

\* Two handlers have each written their record.
C25_Witness ==
    /\ Cardinality(status) >= 2
    /\ Cardinality({r \in Indices : reqs[r].wroteStatus}) >= 2

\* ---------------------------------------------------------------------- C26
\* A non-empty object whose user_id and template_id are non-empty strings,
\* whose variables, when present, is a map with only string values, and whose
\* idempotency_key, when present, is a string.
WellFormed(data) ==
    /\ data # EmptyData
    /\ data.user_id.kind = "str" /\ data.user_id.val # ""
    /\ data.template_id.kind = "str" /\ data.template_id.val # ""
    /\ \/ data.variables.kind = "absent"
       \/ data.variables.kind = "map" /\ data.variables.val # "mixed"
    /\ data.idempotency_key.kind \in {"absent", "str"}

\* The submissions that went past validation, and those it rejected.
PassedValidation ==
    {r \in Indices :
        \/ reqs[r].pc \in {"idem_get", "gate", "pub_connect", "pub_send",
                           "publishing", "set_status", "store_idem"}
        \/ reqs[r].route \in Routes /\ RanOrchestrator(r)}
FailedValidation ==
    {r \in Finished : reqs[r].route \in Routes /\ reqs[r].api_key # ""
                      /\ Outcome(reqs[r]) = "validation_error"}

\* C26: a request passes validation exactly when it is a non-empty object with
\* non-empty string user_id and template_id, a variables map of strings when
\* variables is present and a string idempotency_key when one is present; a
\* request that fails validation publishes nothing and writes neither a status
\* nor an idempotency record.
C26_ValidatedIffWellFormed ==
    /\ \A r \in PassedValidation : WellFormed(reqs[r].data)
    /\ \A r \in FailedValidation :
        /\ ~WellFormed(reqs[r].data)
        /\ reqs[r].code = 400
        /\ reqs[r].pub = 0
        /\ ~reqs[r].wroteStatus
        /\ ~reqs[r].wroteIdem

\* A body with good required fields and good variables is rejected for an
\* idempotency_key that is present and not a string.
C26_Witness ==
    \E r \in FailedValidation :
        /\ Truthy(reqs[r].data.user_id) /\ reqs[r].data.user_id.kind = "str"
        /\ Truthy(reqs[r].data.template_id) /\ reqs[r].data.template_id.kind = "str"
        /\ reqs[r].data.variables = JMap("strs")
        /\ reqs[r].data.idempotency_key.kind \in {"null", "num"}

\* ---------------------------------------------------------------------- C28
\* The handlers that wrote the idempotency record of key k.
RecordWriters(k) ==
    {r \in Indices : reqs[r].wroteIdem /\ KeyOf(reqs[r].data) = k}

\* C28: once an idempotency record exists for a key its stored response is
\* not replaced by another before it expires: as long as no record has
\* expired, at most one handler has written the record of a key (each handler
\* that writes one writes the response of its own publish).
C28_RecordNeverReplaced ==
    ~idemExpired => \A k \in IdemKeys : Cardinality(RecordWriters(k)) <= 1

\* ---------------------------------------------------------------------- C29
\* The submissions answered 202 with a response of their own publish.
Queued ==
    {r \in Submissions : reqs[r].code = 202 /\ Outcome(reqs[r]) = "queued"}
\* The published messages that carry the id a response returned.
MessagesOf(r) ==
    {e \in published : e.notification_id = reqs[r].body.notification_id}

\* C29: the notification_id of every non-replayed 202 queued response is the
\* id of exactly one published message, and that message carries the user_id,
\* the template_id, the type and the idempotency_key of the request.
C29_QueuedIdNamesItsMessage ==
    \A r \in Queued :
        /\ Cardinality(MessagesOf(r)) = 1
        /\ \A e \in MessagesOf(r) :
            /\ e.user_id = reqs[r].data.user_id.val
            /\ e.template_id = reqs[r].data.template_id.val
            /\ e.type = reqs[r].route
            /\ e.idempotency_key = KeyOf(reqs[r].data)

\* Two submissions with the same body were both queued, each with a message
\* of its own.
C29_Witness ==
    \E r, q \in Queued :
        /\ r # q
        /\ KeyOf(reqs[r].data) # ""
        /\ reqs[r].data = reqs[q].data
        /\ MessagesOf(r) # MessagesOf(q)

\* ---------------------------------------------------------------------- C30
\* The submissions answered rate_limit_exceeded.
Rejected ==
    {r \in Submissions : Outcome(reqs[r]) = "rate_limit_exceeded"}

\* The steps of a handler whose request is over the limit: the INCR that finds
\* it so adds one to the counter of its identifier and touches nothing else;
\* the only step after it reads the counter and answers 429.
C30_RejectedStep ==
    \A r \in Indices :
        reqs'[r] # reqs[r] =>
            /\ (reqs[r].pc = "rl_incr" /\ ~reqs'[r].allowed) =>
                /\ rate' = [rate EXCEPT ![reqs[r].api_key].count = @ + 1]
                /\ reqs'[r].pc = "rl_get"
                /\ UNCHANGED <<idem, status, broker>>
            /\ (reqs[r].pc # "rl_incr" /\ ~reqs[r].allowed) =>
                /\ reqs[r].pc = "rl_get"
                /\ reqs'[r].pc = "done"
                /\ reqs'[r].code = 429
                /\ UNCHANGED <<rate, idem, status, broker>>

\* A rejected submission was counted over the limit, published nothing, never
\* called connect() and wrote no record.
C30_RejectedDidNothing ==
    \A r \in Rejected :
        /\ reqs[r].code = 429
        /\ ~reqs[r].allowed
        /\ reqs[r].count > RATE_LIMIT_PER_MINUTE
        /\ reqs[r].pub = 0
        /\ ~reqs[r].reconnected
        /\ ~reqs[r].wroteStatus
        /\ ~reqs[r].wroteIdem

\* C30: a submission rejected with rate_limit_exceeded (429) does no
\* idempotency lookup, publishes nothing and writes no status or idempotency
\* record: the only thing it changes is the rate-limit counter of its
\* identifier, which it increments.
C30_RejectedOnlyCounts == []C30_RejectedDidNothing /\ [][C30_RejectedStep]_vars

\* A submission was rejected and the counter still holds its increment.
C30_Witness ==
    \E r \in Rejected : rate[reqs[r].api_key].count = reqs[r].count

\* ---------------------------------------------------------------------- C31
\* The requests the API-key check turned away.
Unauthenticated ==
    {r \in Finished :
        Outcome(reqs[r]) \in {"missing_api_key", "invalid_api_key",
                              "configuration_error"}}

\* The step in which a request arrives and is turned away changes no counter.
C31_RejectStep ==
    (/\ Len(reqs') = Len(reqs) + 1
     /\ reqs'[Len(reqs')].code \in {401, 500}) => rate' = rate

\* A turned-away request was never counted; a request in the rate limiter has
\* a configured API key as its identifier; and only configured API keys have
\* a counter.
C31_CountedOnlyWhenAuthenticated ==
    /\ \A r \in Unauthenticated :
        /\ reqs[r].code \in {401, 500}
        /\ reqs[r].count = 0
        /\ \A i \in Identifiers : \A n \in 1..Len(incrLog[i]) : incrLog[i][n] # r
    /\ \A r \in Indices :
        reqs[r].pc \in {"rl_incr", "rl_expire", "rl_get"} =>
            reqs[r].api_key \in API_KEYS
    /\ \A i \in Identifiers : rate[i].count > 0 => i \in API_KEYS

\* C31: authentication runs before rate limiting: a request rejected by the
\* API-key check (401, or 500 configuration_error) increments no rate-limit
\* counter, every request that reaches the rate limiter has a valid API key as
\* its identifier, and so counters exist only for configured API keys.
C31_AuthBeforeRateLimit ==
    []C31_CountedOnlyWhenAuthenticated /\ [][C31_RejectStep]_vars

\* A request with an unknown key was turned away while a request with a valid
\* key has been counted.
C31_Witness ==
    /\ \E r \in Unauthenticated : Outcome(reqs[r]) = "invalid_api_key"
    /\ \E i \in API_KEYS : rate[i].count > 0

\* ---------------------------------------------------------------------- C32
\* A step of the rate limiter for one identifier leaves the counter and the
\* expiry of every other identifier as they are, and the INCR that answers
\* decides on the count of its own identifier alone.
C32_OwnCounterStep ==
    \A r \in Indices :
        (reqs'[r] # reqs[r] /\ reqs[r].pc \in {"rl_incr", "rl_expire", "rl_get"}) =>
            /\ \A j \in Identifiers \ {reqs[r].api_key} : rate'[j] = rate[j]
            /\ (reqs[r].pc = "rl_incr" /\ cache_up) =>
                /\ rate'[reqs[r].api_key].count = rate[reqs[r].api_key].count + 1
                /\ reqs'[r].allowed =
                       (rate[reqs[r].api_key].count + 1 <= RATE_LIMIT_PER_MINUTE)

\* C32: the rate-limit counters of different identifiers are independent: a
\* request for identifier A changes only the counter rate_limit:A and its
\* expiry, and whether it is admitted depends only on A's own count in the
\* current window.
C32_CountersIndependent == [][C32_OwnCounterStep]_vars

\* One client was rejected at its third request; the other client's first
\* request, arriving later, was counted as its first and admitted.
C32_Witness ==
    \E r, q \in Finished :
        /\ r < q
        /\ reqs[r].api_key # "" /\ reqs[q].api_key # ""
        /\ reqs[r].api_key # reqs[q].api_key
        /\ Outcome(reqs[r]) = "rate_limit_exceeded"
        /\ reqs[q].allowed
        /\ reqs[q].count = 1
        /\ rate[reqs[r].api_key].count > RATE_LIMIT_PER_MINUTE
        /\ rate[reqs[q].api_key].count = 1

\* ---------------------------------------------------------------------- C33
\* Submission j reuses the key of submission i for something else: the other
\* route, or another user, template or variables.
Differs(i, j) ==
    \/ reqs[i].route # reqs[j].route
    \/ reqs[i].data # reqs[j].data

\* C33 as stated: after a queued submission with key k, a submission with key
\* k on the other route, or with another payload, replays the first response
\* and publishes nothing.
C33_KeyAloneAlwaysReplays ==
    ~load.threaded =>
        \A k \in IdemKeys : \A i, j \in WithKey(k) :
            (/\ i < j
             /\ Differs(i, j)
             /\ Outcome(reqs[i]) = "queued"
             /\ RanOrchestrator(j)) =>
                /\ Outcome(reqs[j]) = "replayed"
                /\ reqs[j].body = reqs[i].body
                /\ reqs[j].pub = 0

\* C33, amended: the idempotency namespace is shared by both routes and the
\* payload is not looked at: after a queued submission with key k, a later
\* submission with key k on the other route or with another payload, once
\* admitted and validated, replays the first response and publishes nothing,
\* as long as Redis has answered every command and the record has not expired.
C33_KeyAloneReplaysWhileCached ==
    (~load.threaded /\ cache_service = "svc" /\ outages = 0 /\ ~idemExpired) =>
        \A k \in IdemKeys : \A i, j \in WithKey(k) :
            (/\ i < j
             /\ Differs(i, j)
             /\ Outcome(reqs[i]) = "queued"
             /\ RanOrchestrator(j)) =>
                /\ Outcome(reqs[j]) = "replayed"
                /\ reqs[j].body = reqs[i].body
                /\ reqs[j].body.message = MessageOf(reqs[i].route)
                /\ reqs[j].pub = 0
                /\ PublishedFor(k) = {e \in published : e.notification_id = reqs[i].pub}

\* A push submission for another user and template was answered with the
\* response of the email submission that used the key first.
C33_Witness ==
    /\ ~load.threaded /\ outages = 0 /\ ~idemExpired
    /\ \E k \in IdemKeys : \E i, j \in WithKey(k) :
        /\ i < j
        /\ reqs[i].route = "email" /\ reqs[j].route = "push"
        /\ reqs[i].data = KeyedData /\ reqs[j].data = OtherKeyedData
        /\ Outcome(reqs[i]) = "queued"
        /\ Outcome(reqs[j]) = "replayed"
        /\ reqs[j].body = reqs[i].body

\* ---------------------------------------------------------------------- C34
\* The submissions that are at, or went through, the idempotency lookup.
LookedUp ==
    {r \in Indices :
        reqs[r].pc = "idem_get" \/ Outcome(reqs[r]) = "replayed"}

\* Whoever reaches the idempotency lookup has been counted before (or Redis
\* failed the count), and nobody counted over the limit gets there.
C34_CountedBeforeLookup ==
    cache_service = "svc" =>
        /\ \A r \in LookedUp :
            /\ reqs[r].allowed
            /\ reqs[r].count >= 1 \/ outages > 0
            /\ reqs[r].count <= RATE_LIMIT_PER_MINUTE
        /\ \A r \in Indices :
            reqs[r].count > RATE_LIMIT_PER_MINUTE =>
                /\ reqs[r].pc \in {"rl_get", "done"}
                /\ Outcome(reqs[r]) \in {"running", "rate_limit_exceeded"}

\* A resubmission whose key has a record, counted when its identifier's count
\* has reached the limit, is found over the limit; its next step answers 429.
C34_ResubmissionStep ==
    \A r \in Indices :
        (/\ reqs'[r] # reqs[r]
         /\ KeyOf(reqs[r].data) # ""
         /\ idem[KeyOf(reqs[r].data)] # Nil) =>
            /\ (/\ reqs[r].pc = "rl_incr"
                /\ cache_up
                /\ rate[reqs[r].api_key].count >= RATE_LIMIT_PER_MINUTE) =>
                    (~reqs'[r].allowed /\ reqs'[r].pc = "rl_get")
            /\ (reqs[r].pc = "rl_get" /\ ~reqs[r].allowed) =>
                    (reqs'[r].code = 429 /\ reqs'[r].body # json_loads(idem[KeyOf(reqs[r].data)]))

\* C34: the rate-limit increment happens before the idempotency check, so a
\* replay consumes quota like any other request: a resubmission with a known
\* idempotency key that arrives when its identifier's count has reached the
\* limit is rejected with 429 instead of being replayed.
C34_ReplayConsumesQuota == []C34_CountedBeforeLookup /\ [][C34_ResubmissionStep]_vars

\* A replay took the last of the quota, and the next resubmission with the
\* same key, its record still stored, was rejected.
C34_Witness ==
    \E k \in IdemKeys : \E i, j \in WithKey(k) :
        /\ i < j
        /\ idem[k] # Nil
        /\ Outcome(reqs[i]) = "replayed"
        /\ reqs[i].count = RATE_LIMIT_PER_MINUTE
        /\ Outcome(reqs[j]) = "rate_limit_exceeded"
        /\ reqs[j].code = 429

\* ---------------------------------------------------------------------- C35
\* The validated submissions that carried key k, and those of them queued.
OrchestratedWith(k) == {r \in WithKey(k) : reqs[r].route \in Routes /\ RanOrchestrator(r)}
QueuedWith(k) == {r \in OrchestratedWith(k) : Outcome(reqs[r]) = "queued"}

\* Without a cache service nothing is recorded and nothing is replayed: while
\* the broker has not failed every validated submission with a key is queued
\* with 202, and each has a message of its own.
C35_NoCacheNoDedup ==
    cache_service = "none" =>
        /\ status = {}
        /\ \A k \in IdemKeys :
            /\ idem[k] = Nil
            /\ \A r \in OrchestratedWith(k) :
                /\ Outcome(reqs[r]) # "replayed"
                /\ ~reqs[r].wroteStatus /\ ~reqs[r].wroteIdem
                /\ ~brokerFaulted =>
                    (Outcome(reqs[r]) = "queued" /\ reqs[r].code = 202)
            /\ Cardinality(PublishedFor(k)) = Cardinality(QueuedWith(k))
            /\ \A r, q \in QueuedWith(k) : reqs[r].pub = reqs[q].pub => r = q

\* A handler whose publish succeeded answers 202 with the success body,
\* whether or not its status and idempotency writes went through; a write
\* that failed leaves no record.
C35_PublishedStays202 ==
    \A r \in Finished :
        reqs[r].pub # 0 =>
            /\ reqs[r].code = 202
            /\ reqs[r].body.success
            /\ reqs[r].body.notification_id = reqs[r].pub
            /\ ~reqs[r].wroteStatus => \A e \in status : e.key # reqs[r].pub

Probed == call' # call /\ call'.op = "is_connected"

\* C36: is_connected() on the broker publisher is a pure probe: it returns a
\* true value exactly when both the connection and the channel exist and are
\* open, it never raises, and it leaves the instance, the connection, the
\* channel and the broker as they were; in particular it never reconnects.
C36_ProbeIsPure ==
    [][Probed =>
        /\ ~call'.raised
        /\ (call'.result = "True") <=>
              (/\ connection \notin {"none", "closed"}
               /\ channel \notin {"none", "closed"})
        /\ UNCHANGED <<instance, connection, channel, parameters, topology,
                       broker_up>>]_vars

\* The probe answered False on a connection that is open while its channel is
\* closed, and the channel is still closed.
C36_Witness ==
    /\ call.op = "is_connected"
    /\ call.result = "False"
    /\ instance = "connected"
    /\ connection = "open"
    /\ channel = "closed"


\* C37: close() on the broker publisher never raises to its caller, closes
\* the channel before the connection, and after it returns the connection is
\* closed even when closing the channel failed.
C37_CloseAlwaysCloses ==
    call.op = "close" =>
        /\ ~call.raised
        /\ call.result \in {"", "channel", "connection", "channel,connection"}
        /\ connection # "open"


\* C38: get_queue_service() either raises or returns a QueueService whose
\* connect() has completed successfully, on every call: after a first call
\* whose connect() failed, a later call connects again instead of returning
\* the unconnected instance.
C38_ReturnsConnectedOrRaises ==
    (call.op = "get_queue_service" /\ ~call.raised) =>
        /\ call.result = "connected"
        /\ instance = "connected"

====
